---- MODULE Spec2Model ----
(***************************************************************************)
(* A model of data_cleaning.py: the four cleaning functions applied to a   *)
(* pandas DataFrame and the script (__main__) that chains them between     *)
(* read_csv and to_csv.                                                    *)
(*                                                                         *)
(* Text is a sequence of one-character strings.  A cell is a record        *)
(* [t, v, s]: an integer-valued number (t = "num", value v), the missing   *)
(* marker NaN (t = "nan") or text (t = "str", characters s).  A DataFrame  *)
(* is [columns, dtypes, rows]; a row is [idx, cells] with idx its index    *)
(* label and cells aligned with columns by position, so two columns may    *)
(* carry the same label, as in pandas.                                     *)
(***************************************************************************)
EXTENDS Integers, Sequences, FiniteSets

VARIABLES pc, caller, heap, arg, df, text_columns, exc, fs, done

vars == <<pc, caller, heap, arg, df, text_columns, exc, fs, done>>

\* ------------------------------------------------------------ bounds

\* Most data rows of an enumerated table or file.
MaxRows == 2

\* Longest enumerated free-form column label.
MaxLen == 3

\* ------------------------------------------------------------ text

UpperLetters == <<"A","B","C","D","E","F","G","H","I","J","K","L","M",
                  "N","O","P","Q","R","S","T","U","V","W","X","Y","Z">>

LowerLetters == <<"a","b","c","d","e","f","g","h","i","j","k","l","m",
                  "n","o","p","q","r","s","t","u","v","w","x","y","z">>

DigitChars == <<"0","1","2","3","4","5","6","7","8","9">>

Range(f) == {f[i] : i \in DOMAIN f}

\* Characters str.strip() removes.
IsSpace(c) == c \in {" ", "\t", "\n"}

\* Characters the regular expression class \w matches.
IsWord(c) == c \in Range(UpperLetters) \cup Range(LowerLetters)
                   \cup Range(DigitChars) \cup {"_"}

\* str.lower() of one character.
LowerChar(c) ==
  IF c \in Range(UpperLetters)
  THEN LowerLetters[CHOOSE i \in DOMAIN UpperLetters : UpperLetters[i] = c]
  ELSE c

\* .str.lower()
Lower(s) == [i \in DOMAIN s |-> LowerChar(s[i])]

RECURSIVE LStrip(_)
LStrip(s) == IF s # <<>> /\ IsSpace(Head(s)) THEN LStrip(Tail(s)) ELSE s

RECURSIVE RStrip(_)
RStrip(s) ==
  IF s # <<>> /\ IsSpace(s[Len(s)]) THEN RStrip(SubSeq(s, 1, Len(s) - 1)) ELSE s

\* .str.strip(): leading and trailing whitespace removed.
StripLeadingOnly(s) == LStrip(s)

Strip(s) == RStrip(LStrip(s))

RECURSIVE DropNonWord(_)
DropNonWord(s) ==
  IF s # <<>> /\ ~IsWord(Head(s)) THEN DropNonWord(Tail(s)) ELSE s

\* re.sub(r"[^\w]", "_", s): the pattern without its "+".
RECURSIVE ReSubEachChar(_)
ReSubEachChar(s) ==
  IF s = <<>> THEN <<>>
  ELSE IF IsWord(Head(s)) THEN <<Head(s)>> \o ReSubEachChar(Tail(s))
  ELSE <<"_">> \o ReSubEachChar(Tail(s))

\* re.sub(r"[^\w]+", "_", s, count=1): only the first match replaced.
RECURSIVE ReSubFirst(_)
ReSubFirst(s) ==
  IF s = <<>> THEN <<>>
  ELSE IF IsWord(Head(s)) THEN <<Head(s)>> \o ReSubFirst(Tail(s))
  ELSE <<"_">> \o DropNonWord(s)

\* .str.replace(r"[^\w]+", "_", regex=True): scanning left to right, each
\* leftmost-longest match of [^\w]+ is replaced by "_".
RECURSIVE ReSub(_)
ReSub(s) ==
  IF s = <<>> THEN <<>>
  ELSE IF IsWord(Head(s)) THEN <<Head(s)>> \o ReSub(Tail(s))
  ELSE <<"_">> \o ReSub(DropNonWord(s))

\* The label pipeline of clean_column_names: strip, lower, replace.
NormalizeName(s) == ReSub(Lower(Strip(s)))

\* Python's  sub in s  on text.
Contains(sub, s) ==
  \E i \in 0..(Len(s) - Len(sub)) : SubSeq(s, i + 1, i + Len(sub)) = sub

\* ------------------------------------------------------------ cells

Num(n) == [t |-> "num", v |-> n, s |-> <<>>]

NaN == [t |-> "nan", v |-> 0, s |-> <<>>]

Str(chars) == [t |-> "str", v |-> 0, s |-> chars]

IsNum(c) == c.t = "num"

IsNaN(c) == c.t = "nan"

IsStr(c) == c.t = "str"

DigitVal(c) == (CHOOSE i \in DOMAIN DigitChars : DigitChars[i] = c) - 1

IsDigit(c) == c \in Range(DigitChars)

RECURSIVE NatToChars(_)
NatToChars(n) ==
  IF n < 10 THEN <<DigitChars[n + 1]>>
  ELSE NatToChars(n \div 10) \o <<DigitChars[(n % 10) + 1]>>

\* str() of a Python int.
IntToChars(n) == IF n < 0 THEN <<"-">> \o NatToChars(-n) ELSE NatToChars(n)

RECURSIVE DigitsValue(_)
DigitsValue(s) ==
  IF s = <<>> THEN 0
  ELSE 10 * DigitsValue(SubSeq(s, 1, Len(s) - 1)) + DigitVal(s[Len(s)])

AllDigits(s) == \A i \in DOMAIN s : IsDigit(s[i])

AllZeros(s) == \A i \in DOMAIN s : s[i] = "0"

\* An unsigned literal of the model's numbers: digits, then optionally a
\* point followed by zeros only (the model holds integer-valued numbers; no
\* enumerated text carries another fraction).
IsUnsignedLiteral(s) ==
  \E k \in 1..Len(s) :
    /\ AllDigits(SubSeq(s, 1, k))
    /\ \/ k = Len(s)
       \/ s[k + 1] = "." /\ k + 1 <= Len(s) /\ AllZeros(SubSeq(s, k + 2, Len(s)))

UnsignedValue(s) ==
  LET k == CHOOSE k \in 1..Len(s) :
             AllDigits(SubSeq(s, 1, k)) /\ (k = Len(s) \/ s[k + 1] = ".")
  IN DigitsValue(SubSeq(s, 1, k))

\* What pd.to_numeric(errors="coerce") makes of one text value: surrounding
\* whitespace is skipped, a sign is optional, and text that is no number
\* (the empty text and "nan" included) becomes NaN.
ParseNumber(s) ==
  LET b == Strip(s)
      signed == b # <<>> /\ Head(b) \in {"-", "+"}
      u == IF signed THEN Tail(b) ELSE b
  IN IF u # <<>> /\ IsUnsignedLiteral(u)
     THEN Num(IF signed /\ Head(b) = "-" THEN -UnsignedValue(u) ELSE UnsignedValue(u))
     ELSE NaN

\* errors="ignore"-like conversion: text that is no number is kept as it is.
ToNumericCellKeepText(c) ==
  IF IsStr(c) /\ IsNum(ParseNumber(c.s)) THEN ParseNumber(c.s) ELSE c

\* pd.to_numeric(errors="coerce") on one cell.
ToNumericCell(c) == IF IsStr(c) THEN ParseNumber(c.s) ELSE c

\* str(x) of one cell as .astype(str) computes it: a float64 column prints
\* its numbers with a fraction, NaN prints as "nan".
ReprCell(c, dtype) ==
  IF IsStr(c) THEN c.s
  ELSE IF IsNaN(c) THEN <<"n", "a", "n">>
  ELSE IF dtype = "float64" THEN IntToChars(c.v) \o <<".", "0">>
  ELSE IntToChars(c.v)

\* .astype(str).str.lstrip()
AsTextCellLeadingOnly(c, dtype) == Str(StripLeadingOnly(ReprCell(c, dtype)))

\* .astype(str).str.strip() on one cell of a column of the given dtype.
StripCell(c, dtype) == Str(Strip(ReprCell(c, dtype)))

\* ------------------------------------------------------------ DataFrames

\* The labels the classification rules look for.
PriceWord == <<"p", "r", "i", "c", "e">>

QtyWord == <<"q", "t", "y">>

QuantityWord == <<"q", "u", "a", "n", "t", "i", "t", "y">>

NumericDtypes == {"int64", "float64"}

\* The cells of the column at position i, in row order.
ColumnCells(t, i) == [r \in 1..Len(t.rows) |-> t.rows[r].cells[i]]

\* The positions of the columns carrying a label (more than one when the
\* label is duplicated; df[label] is then a DataFrame, not a Series).
Positions(t, label) == {i \in 1..Len(t.columns) : t.columns[i] = label}

\* df[label] = cells, for a label one column carries.
SetColumn(t, i, cells, dtype) ==
  [t EXCEPT !.dtypes[i] = dtype,
            !.rows = [r \in 1..Len(t.rows) |->
                        [t.rows[r] EXCEPT !.cells[i] = cells[r]]]]

\* [c for c in df.columns if ...]: the labels at the positions in S, in
\* column order.
RECURSIVE LabelsAt(_, _, _)
LabelsAt(t, S, i) ==
  IF i > Len(t.columns) THEN <<>>
  ELSE (IF i \in S THEN <<t.columns[i]>> ELSE <<>>) \o LabelsAt(t, S, i + 1)

\* The rows at the positions in S, last first.
RECURSIVE SelectRowsReversed(_, _)
SelectRowsReversed(rows, S) ==
  IF rows = <<>> THEN <<>>
  ELSE (IF Len(rows) \in S THEN <<rows[Len(rows)]>> ELSE <<>>)
         \o SelectRowsReversed(SubSeq(rows, 1, Len(rows) - 1), S)

\* Boolean-mask row selection (df[mask], dropna): the rows at the positions
\* in S, in their order in rows.
RECURSIVE SelectRows(_, _)
SelectRows(rows, S) ==
  IF rows = <<>> THEN <<>>
  ELSE SelectRows(SubSeq(rows, 1, Len(rows) - 1), S)
         \o (IF Len(rows) \in S THEN <<rows[Len(rows)]>> ELSE <<>>)

\* What a function call leaves: the exception raised ("" when it returned),
\* the state of its df.copy() after the in-place assignments, the table it
\* returns, and whether that table is an object made after the copy.
Returned(copy, t, fresh) == [exc |-> "", copy |-> copy, t |-> t, fresh |-> fresh]

Raised(e, t) == [exc |-> e, copy |-> t, t |-> t, fresh |-> FALSE]

\* ---- clean_column_names

clean_column_names(t) ==
  LET renamed == [t EXCEPT !.columns =
                     [i \in 1..Len(t.columns) |-> NormalizeName(t.columns[i])]]
  IN Returned(renamed, renamed, FALSE)

\* ---- strip_text_columns

NoColumns == [given |-> FALSE, cols |-> <<>>]

Given(cols) == [given |-> TRUE, cols |-> cols]

\* df.select_dtypes(include="object").columns.tolist()
ObjectColumns(t) ==
  LabelsAt(t, {i \in 1..Len(t.columns) : t.dtypes[i] = "object"}, 1)

\* One turn of the loop: df[col] = df[col].astype(str).str.strip().  A label
\* no column carries raises KeyError; a label two columns carry selects a
\* DataFrame, which has no .str accessor.
StripColumn(t, col) ==
  LET pos == Positions(t, col)
  IN IF pos = {} THEN Raised("KeyError", t)
     ELSE IF Cardinality(pos) > 1 THEN Raised("AttributeError", t)
     ELSE LET i == CHOOSE i \in pos : TRUE
              cells == [r \in 1..Len(t.rows) |->
                          StripCell(t.rows[r].cells[i], t.dtypes[i])]
          IN Returned(SetColumn(t, i, cells, "object"),
                      SetColumn(t, i, cells, "object"), FALSE)

RECURSIVE StripLoop(_, _)
StripLoop(t, cols) ==
  IF cols = <<>> THEN Returned(t, t, FALSE)
  ELSE LET r == StripColumn(t, Head(cols))
       IN IF r.exc # "" THEN r ELSE StripLoop(r.t, Tail(cols))

strip_text_columns(t, text_cols) ==
  StripLoop(t, IF text_cols.given THEN text_cols.cols ELSE ObjectColumns(t))

\* ---- the classification rules

IsPriceLabel(c) == Contains(PriceWord, c)

IsQtyLabel(c) == Contains(QtyWord, c) \/ Contains(QuantityWord, c)

\* price_cols = [c for c in df_clean.columns if "price" in c]
price_cols(t) ==
  LabelsAt(t, {i \in 1..Len(t.columns) : IsPriceLabel(t.columns[i])}, 1)

\* qty_cols = [c for c in df_clean.columns if "qty" in c or "quantity" in c]
qty_cols(t) ==
  LabelsAt(t, {i \in 1..Len(t.columns) : IsQtyLabel(t.columns[i])}, 1)

\* ---- handle_missing_values

\* One turn of the conversion loop: df[col] = pd.to_numeric(df[col],
\* errors="coerce").  A duplicated label selects a DataFrame, which
\* to_numeric refuses.  A column that is numeric already passes through;
\* any other becomes float64 when it holds a NaN and int64 when it does not.
ToNumericColumn(t, col) ==
  LET pos == Positions(t, col)
  IN IF Cardinality(pos) > 1 THEN Raised("TypeError", t)
     ELSE LET i == CHOOSE i \in pos : TRUE
              cells == [r \in 1..Len(t.rows) |-> ToNumericCell(t.rows[r].cells[i])]
              dtype == IF \E r \in 1..Len(t.rows) : IsNaN(cells[r])
                       THEN "float64" ELSE "int64"
              conv == IF t.dtypes[i] \in NumericDtypes THEN t
                      ELSE SetColumn(t, i, cells, dtype)
          IN Returned(conv, conv, FALSE)

RECURSIVE ToNumericLoop(_, _)
ToNumericLoop(t, cols) ==
  IF cols = <<>> THEN Returned(t, t, FALSE)
  ELSE LET r == ToNumericColumn(t, Head(cols))
       IN IF r.exc # "" THEN r ELSE ToNumericLoop(r.t, Tail(cols))

\* Only the price labels are required.
RequiredPriceOnly(t) == Range(price_cols(t))

\* required_numeric_cols = list(set(price_cols + qty_cols))
required_numeric_cols(t) == Range(price_cols(t) \o qty_cols(t))

\* df.dropna(subset=required): the rows holding no NaN in a required column.
dropna(t, required) ==
  [t EXCEPT !.rows =
     SelectRows(t.rows,
       {r \in 1..Len(t.rows) :
          \A i \in 1..Len(t.columns) :
            t.columns[i] \in required => ~IsNaN(t.rows[r].cells[i])})]

handle_missing_values(t) ==
  LET conv == ToNumericLoop(t, price_cols(t) \o qty_cols(t))
      required == required_numeric_cols(t)
  IN IF conv.exc # "" THEN conv
     ELSE IF required # {} THEN Returned(conv.t, dropna(conv.t, required), TRUE)
     ELSE Returned(conv.t, conv.t, FALSE)

\* ---- remove_invalid_rows

\* value > 0
Positive(c) == IsNum(c) /\ c.v > 0

\* value >= 0 on one cell; NaN compares False.
NonNegative(c) == IsNum(c) /\ c.v >= 0

\* One turn of a filter loop: df = df[df[col] >= 0].  Text compared with 0
\* raises TypeError.  A duplicated label makes the mask a DataFrame; no table
\* the sanitizer returns has one among its matched labels (line 130 raises
\* first), and the step is then taken to fail.
FilterColumn(t, col) ==
  LET pos == Positions(t, col)
  IN IF Cardinality(pos) > 1 THEN Raised("ValueError", t)
     ELSE LET i == CHOOSE i \in pos : TRUE
          IN IF \E r \in 1..Len(t.rows) : IsStr(t.rows[r].cells[i])
             THEN Raised("TypeError", t)
             ELSE LET kept == [t EXCEPT !.rows =
                                SelectRows(t.rows,
                                  {r \in 1..Len(t.rows) :
                                     NonNegative(t.rows[r].cells[i])})]
                  IN Returned(kept, kept, TRUE)

RECURSIVE FilterLoop(_, _)
FilterLoop(t, cols) ==
  IF cols = <<>> THEN Returned(t, t, FALSE)
  ELSE LET r == FilterColumn(t, Head(cols))
       IN IF r.exc # "" THEN r ELSE FilterLoop(r.t, Tail(cols))

\* The price loop, then the quantity loop, over the labels read from the
\* copy before any row is removed.
remove_invalid_rows(t) ==
  LET cols == price_cols(t) \o qty_cols(t)
      r == FilterLoop(t, cols)
  IN IF r.exc # "" THEN Raised(r.exc, t)
     ELSE Returned(t, r.t, cols # <<>>)

\* ------------------------------------------------------------ files

Absent == [kind |-> "absent", header |-> <<>>, lines |-> <<>>]

Missing == [kind |-> "missing", header |-> <<>>, lines |-> <<>>]

Malformed == [kind |-> "malformed", header |-> <<>>, lines |-> <<>>]

Csv(header, lines) == [kind |-> "csv", header |-> header, lines |-> lines]

\* Fields read_csv takes for missing values (its default na_values, those
\* the enumerated files use).
NaFields == {<<>>, <<"N", "/", "A">>, <<"N", "A">>, <<"n", "a", "n">>}

\* pd.read_csv on one column of fields: numeric when every field is a
\* number or missing (int64 without a missing field, float64 with one),
\* text otherwise, a missing field NaN in either; a file of the header line
\* alone gives object columns.
ReadColumn(fields) ==
  LET cellOf(f) == IF f \in NaFields THEN NaN ELSE ParseNumber(f)
      numeric == /\ fields # <<>>
                 /\ \A r \in 1..Len(fields) :
                      fields[r] \in NaFields \/ IsNum(ParseNumber(fields[r]))
      anyNa == \E r \in 1..Len(fields) : fields[r] \in NaFields
  IN IF numeric
     THEN [dtype |-> IF anyNa THEN "float64" ELSE "int64",
           cells |-> [r \in 1..Len(fields) |-> cellOf(fields[r])]]
     ELSE [dtype |-> "object",
           cells |-> [r \in 1..Len(fields) |->
                        IF fields[r] \in NaFields THEN NaN ELSE Str(fields[r])]]

\* A DataFrame from its columns ([dtype, cells] each), indexed 0..n-1.
MakeTable(header, cols, n) ==
  [columns |-> header,
   dtypes |-> [i \in 1..Len(header) |-> cols[i].dtype],
   rows |-> [r \in 1..n |->
               [idx |-> r - 1,
                cells |-> [i \in 1..Len(header) |-> cols[i].cells[r]]]]]

\* load_data: pd.read_csv(file_path).
load_data(file) ==
  IF file.kind = "missing" THEN Raised("FileNotFoundError", file)
  ELSE IF file.kind = "malformed" THEN Raised("ParserError", file)
  ELSE LET n == Len(file.lines)
           cols == [i \in 1..Len(file.header) |->
                      ReadColumn([r \in 1..n |-> file.lines[r][i]])]
           t == MakeTable(file.header, cols, n)
       IN Returned(t, t, TRUE)

\* One cell as df.to_csv writes it: NaN as the empty field.
CsvField(c, dtype) == IF IsNaN(c) THEN <<>> ELSE ReprCell(c, dtype)

\* df.to_csv(path, index=False): the header line and one line per row.
to_csv(t) ==
  Csv(t.columns,
      [r \in 1..Len(t.rows) |->
         [i \in 1..Len(t.columns) |-> CsvField(t.rows[r].cells[i], t.dtypes[i])]])

\* ------------------------------------------------------------ inputs

\* Two-column headers of the enumerated tables: the normalised price and
\* quantity labels, and two raw labels, of which the first matches no rule
\* and the second matches none as it is and both once normalised.
Headers ==
  { <<PriceWord, QtyWord>>,
    << <<"P","r","o","d","u","c","t"," ","N","a","m","e">>,
       <<"P","r","i","c","e","_","Q","u","a","n","t","i","t","y">> >> }

\* A label no enumerated table carries.
AbsentLabel == <<"s", "k", "u">>

NumberCells == {Num(3), Num(0), Num(-5), NaN}

TextCells == {Str(<<"N", "/", "A">>), Str(<<" ", "3", " ">>), NaN}

\* The columns of n rows a DataFrame is built with: numbers (float64 when a
\* NaN is among them), or text with NaN for its missing values.
TypedColumns(n) ==
  {[dtype |-> IF \E r \in 1..n : IsNaN(f[r]) THEN "float64" ELSE "int64",
    cells |-> f] : f \in IF n = 0 THEN {} ELSE [1..n -> NumberCells]}
  \cup
  {[dtype |-> "object", cells |-> f] :
     f \in {g \in [1..n -> TextCells] : n = 0 \/ \E r \in 1..n : IsStr(g[r])}}

\* The tables the spec's examples name: the range-filter rows, the text
\* column to trim, and the header to normalise (over one row of data).
RangeExample ==
  MakeTable(<<PriceWord, QtyWord>>,
            << [dtype |-> "int64", cells |-> <<Num(-5), Num(10), Num(10)>>],
               [dtype |-> "int64", cells |-> <<Num(3), Num(-1), Num(3)>>] >>, 3)

TrimExample ==
  MakeTable(<< <<"p","r","o","d","u","c","t">> >>,
            << [dtype |-> "object",
                cells |-> << Str(<<" ","A","p","p","l","e"," ">>),
                             Str(<<"B","a","n","a","n","a">>),
                             Str(<<" ","p","e","a","r">>) >>] >>, 3)

HeaderExample ==
  MakeTable(<< <<"P","r","o","d","u","c","t"," ","N","a","m","e">>,
               <<" ","U","n","i","t","-","P","r","i","c","e"," ">>,
               <<"Q","T","Y","!">> >>,
            << [dtype |-> "object", cells |-> << Str(<<" ","p","e","a","r">>) >>],
               [dtype |-> "int64", cells |-> << Num(10) >>],
               [dtype |-> "int64", cells |-> << Num(3) >>] >>, 1)

\* Three rows of which the sanitizer drops the middle one and the range
\* filter the last.
OrderExample ==
  MakeTable(<<PriceWord, QtyWord>>,
            << [dtype |-> "float64", cells |-> <<Num(3), NaN, Num(0)>>],
               [dtype |-> "int64", cells |-> <<Num(0), Num(3), Num(-5)>>] >>, 3)

ExampleTables == {RangeExample, TrimExample, HeaderExample, OrderExample}

\* Free-form labels, each heading a table of one empty column.
LabelChars == {"A", "b", "_", " ", "-", "1"}

FreeLabels == UNION {[1..n -> LabelChars] : n \in 0..MaxLen}

LabelTables ==
  {MakeTable(<<l>>, << [dtype |-> "object", cells |-> <<>>] >>, 0) : l \in FreeLabels}

\* The text_columns arguments a caller passes for a table: none, its last
\* label, all its labels, or a label it does not carry.
TextColumnChoices(t) ==
  {NoColumns, Given(<<t.columns[Len(t.columns)]>>), Given(t.columns),
   Given(<<AbsentLabel>>)}

\* The raw files of the script: none, one that is no delimited text, or a
\* header line and up to MaxRows records of two fields.
FileHeaders ==
  { << <<" ","U","n","i","t","-","P","r","i","c","e"," ">>, <<"Q","T","Y","!">> >>,
    << <<"P","r","i","c","e">>, <<"p","r","i","c","e">> >> }

Fields == { <<"1","0">>, <<"-","5">>, <<"N","/","A">>, <<" ","p","e","a","r">> }

\* A cleaned file an earlier run left.
Stale == Csv(<< <<"o","l","d">> >>, <<>>)

NoFs == [raw |-> Absent, dir |-> FALSE, cleaned |-> Absent]

\* ------------------------------------------------------------ state

\* The stages in the order the script runs them.
Stages == <<"load", "names", "strip", "sanitize", "filter">>

\* A caller that imported the module holds a table and calls the cleaning
\* functions on it from some stage on (remove_invalid_rows, whose input is
\* "after missing values have been handled", after handle_missing_values).
ImportFrom(t) ==
  /\ heap = <<t>>
  /\ \/ pc = "names" /\ text_columns = NoColumns
     \/ pc = "strip" /\ text_columns \in TextColumnChoices(t)
     \/ pc = "sanitize" /\ text_columns = NoColumns

ImportInit ==
  /\ caller = "import"
  /\ \/ \E t \in LabelTables :
          heap = <<t>> /\ pc = "names" /\ text_columns = NoColumns
     \/ \E t \in ExampleTables : ImportFrom(t)
     \/ \E h \in Headers, n \in 0..MaxRows :
          \E cols \in [1..2 -> TypedColumns(n)] : ImportFrom(MakeTable(h, cols, n))
  /\ df = 1
  /\ arg = 0
  /\ exc = ""
  /\ fs = NoFs
  /\ done = <<>>

\* The script: nothing loaded yet, the raw file as it is on disk, the
\* cleaned file not there or left by an earlier run.
ScriptFrom(f) ==
  fs \in {[raw |-> f, dir |-> FALSE, cleaned |-> Absent],
          [raw |-> f, dir |-> TRUE, cleaned |-> Stale]}

ScriptInit ==
  /\ caller = "script"
  /\ pc = "makedirs"
  /\ heap = <<>>
  /\ df = 0
  /\ arg = 0
  /\ text_columns = NoColumns
  /\ exc = ""
  /\ \/ \E f \in {Missing, Malformed} : ScriptFrom(f)
     \/ \E h \in FileHeaders, n \in 0..MaxRows :
          \E lines \in [1..n -> [1..2 -> Fields]] : ScriptFrom(Csv(h, lines))
  /\ done = <<>>

Init == ImportInit \/ ScriptInit

\* ------------------------------------------------------------ calls

\* df_clean = df: no copy is made.
CopyAlias(h, src) == src

\* df.copy(): a new object, whose id is the next free one.
Copy(h, src) == Len(h) + 1

Store(h, id, t) == IF id = Len(h) + 1 THEN Append(h, t) ELSE [h EXCEPT ![id] = t]

\* An exception caught and passed over once a table is loaded.
Swallow(p) == IF p = "load" THEN "failed" ELSE "write"

\* No stage call is inside a try: an exception ends the run.
Propagate(p) == "failed"

\* Where the caller goes after a stage returned.
AfterStage(p) ==
  CASE p = "load" -> "names"
    [] p = "names" -> "strip"
    [] p = "strip" -> "sanitize"
    [] p = "sanitize" -> "filter"
    [] p = "filter" -> IF caller = "script" THEN "write" ELSE "returned"

\* A call of a cleaning function on the table the caller holds: the copy is
\* made and assigned to in place, a filtered result is one more object, and
\* the caller's variable is bound to what is returned.  A raised exception
\* leaves the caller's variable as it was.
Call(stage, r) ==
  /\ pc = stage
  /\ IF r.exc # ""
     THEN /\ pc' = Propagate(stage)
          /\ exc' = r.exc
          /\ UNCHANGED <<heap, arg, df, done>>
     ELSE LET c == Copy(heap, df)
              h1 == Store(heap, c, r.copy)
          IN /\ heap' = IF r.fresh THEN Append(h1, r.t) ELSE h1
             /\ df' = IF r.fresh THEN Len(h1) + 1 ELSE c
             /\ arg' = df
             /\ pc' = AfterStage(stage)
             /\ done' = Append(done, stage)
             /\ UNCHANGED exc
  /\ UNCHANGED <<caller, text_columns, fs>>

\* os.makedirs(os.path.dirname(cleaned_path), exist_ok=True)
MakeDirs ==
  /\ pc = "makedirs"
  /\ fs' = [fs EXCEPT !.dir = TRUE]
  /\ pc' = "load"
  /\ UNCHANGED <<caller, heap, arg, df, text_columns, exc, done>>

\* df_raw = load_data(raw_path)
LoadData ==
  /\ pc = "load"
  /\ LET r == load_data(fs.raw)
     IN IF r.exc # ""
        THEN /\ pc' = Propagate("load")
             /\ exc' = r.exc
             /\ UNCHANGED <<heap, arg, df, done>>
        ELSE /\ heap' = Append(heap, r.t)
             /\ df' = Len(heap) + 1
             /\ pc' = AfterStage("load")
             /\ done' = Append(done, "load")
             /\ UNCHANGED <<arg, exc>>
  /\ UNCHANGED <<caller, text_columns, fs>>

CleanColumnNames == Call("names", clean_column_names(heap[df]))

StripTextColumns == Call("strip", strip_text_columns(heap[df], text_columns))

HandleMissingValues == Call("sanitize", handle_missing_values(heap[df]))

RemoveInvalidRows == Call("filter", remove_invalid_rows(heap[df]))

\* df_clean.to_csv(cleaned_path, index=False)
ToCsv ==
  /\ pc = "write"
  /\ fs' = [fs EXCEPT !.cleaned = to_csv(heap[df])]
  /\ pc' = "print"
  /\ done' = Append(done, "write")
  /\ UNCHANGED <<caller, heap, arg, df, text_columns, exc>>

\* print("Cleaning complete. ..."); print(df_clean.head())
PrintHead ==
  /\ pc = "print"
  /\ pc' = "done"
  /\ UNCHANGED <<caller, heap, arg, df, text_columns, exc, fs, done>>

Next ==
  \/ MakeDirs
  \/ LoadData
  \/ CleanColumnNames
  \/ StripTextColumns
  \/ HandleMissingValues
  \/ RemoveInvalidRows
  \/ ToCsv
  \/ PrintHead

Spec == Init /\ [][Next]_vars

\* ------------------------------------------------------------ properties

\* The stage that returned last, its argument and its result.
LastStage == IF done = <<>> THEN "none" ELSE done[Len(done)]

In == heap[arg]

Out == heap[df]

IdxSeq(t) == [r \in 1..Len(t.rows) |-> t.rows[r].idx]

IdxSet(t) == {t.rows[r].idx : r \in 1..Len(t.rows)}

\* A column classified as price or quantity by its label.
Classified(label) == IsPriceLabel(label) \/ IsQtyLabel(label)

ClassifiedAt(t) == {i \in 1..Len(t.columns) : Classified(t.columns[i])}

\* Text that is no number.
Unparsable(c) == IsStr(c) /\ ~IsNum(ParseNumber(c.s))

\* C1: after handle_missing_values every surviving row holds a number (not
\* NaN, not text) in every column whose label contains "price", "qty" or
\* "quantity"; and a row whose cell in a price column was text that is no
\* number is not among the survivors, whatever its other cells.
SanitizerSurvivorsNumeric ==
  LastStage = "sanitize" =>
    /\ \A r \in 1..Len(Out.rows) : \A i \in ClassifiedAt(Out) :
         IsNum(Out.rows[r].cells[i])
    /\ \A r \in 1..Len(In.rows) : \A i \in 1..Len(In.columns) :
         IsPriceLabel(In.columns[i]) /\ Unparsable(In.rows[r].cells[i])
           => In.rows[r].idx \notin IdxSet(Out)

\* A row with the text N/A as its price and a number as its quantity was
\* dropped while another row survived.
SanitizerDroppedNaPrice ==
  /\ LastStage = "sanitize"
  /\ In.columns = <<PriceWord, QtyWord>>
  /\ \E r \in 1..Len(In.rows) :
       /\ In.rows[r].cells[1] = Str(<<"N", "/", "A">>)
       /\ In.rows[r].cells[2] = Num(3)
       /\ In.rows[r].idx \notin IdxSet(Out)
  /\ Out.rows # <<>>

\* A row is non-negative in every price and every quantity column.
AllNonNegative(t, r) ==
  \A i \in ClassifiedAt(t) :
    t.rows[r].cells[i].t = "num" /\ t.rows[r].cells[i].v >= 0

\* C2: the rows remove_invalid_rows returns are exactly the rows of its
\* input that are non-negative in every price and every quantity column;
\* filtering the quantity columns before the price columns gives the same
\* table; of the rows (-5, 3), (10, -1), (10, 3) only the third is returned.
RangeFilterKeepsExactlyNonNegative ==
  LastStage = "filter" =>
    /\ IdxSet(Out) = {In.rows[r].idx : r \in {q \in 1..Len(In.rows) : AllNonNegative(In, q)}}
    /\ \A r \in 1..Len(Out.rows) : Out.rows[r] \in Range(In.rows)
    /\ FilterLoop(In, qty_cols(In) \o price_cols(In)).t = Out
    /\ In = RangeExample => Out.rows = <<RangeExample.rows[3]>>

\* The example rows were filtered down to the third.
RangeExampleFiltered ==
  /\ LastStage = "filter"
  /\ In = RangeExample
  /\ Len(Out.rows) = 1

\* C3: the labels clean_column_names returns are left as they are by
\* clean_column_names.
NormalizationIdempotent ==
  LastStage = "names" => clean_column_names(Out).t.columns = Out.columns

\* Normalisation changed a label.
NormalizationChangedLabel ==
  /\ LastStage = "names"
  /\ Out.columns # In.columns

\* The positions of a text from its first to its last non-space character.
Trimmed(s) ==
  LET inner == {i \in 1..Len(s) : ~IsSpace(s[i])}
  IN IF inner = {} THEN <<>>
     ELSE SubSeq(s, CHOOSE i \in inner : \A j \in inner : i <= j,
                    CHOOSE i \in inner : \A j \in inner : j <= i)

\* A text with every maximal run of non-word characters replaced by one
\* underscore: a character stays when it is a word character, and the first
\* character of a run becomes the underscore.
RunsCollapsed(s) ==
  LET kept == SelectSeq([p \in 1..Len(s) |-> p],
                        LAMBDA p : IsWord(s[p]) \/ p = 1 \/ IsWord(s[p - 1]))
  IN [k \in 1..Len(kept) |-> IF IsWord(s[kept[k]]) THEN s[kept[k]] ELSE "_"]

ProductNameLabel == <<"p","r","o","d","u","c","t","_","n","a","m","e">>

UnitPriceLabel == <<"u","n","i","t","_","p","r","i","c","e">>

QtyUnderscoreLabel == <<"q","t","y","_">>

\* C4: clean_column_names returns as many columns, in the same order, each
\* label trimmed, lowercased and with every maximal run of non-word
\* characters replaced by one underscore, over the same rows and dtypes;
\* the header Product Name, " Unit-Price ", QTY! becomes product_name,
\* unit_price, qty_.
NormalizerComputesCanonicalLabels ==
  LastStage = "names" =>
    /\ Len(Out.columns) = Len(In.columns)
    /\ \A i \in 1..Len(In.columns) :
         Out.columns[i] = RunsCollapsed(Lower(Trimmed(In.columns[i])))
    /\ Out.rows = In.rows
    /\ Out.dtypes = In.dtypes
    /\ In = HeaderExample =>
         Out.columns = <<ProductNameLabel, UnitPriceLabel, QtyUnderscoreLabel>>

\* The example header was normalised.
HeaderExampleNormalized ==
  /\ LastStage = "names"
  /\ In = HeaderExample
  /\ Out.columns # In.columns

\* The position in a table of the row carrying an index label.
RowAt(t, idx) == CHOOSE p \in 1..Len(t.rows) : t.rows[p].idx = idx

\* C5: the rows a stage returns are rows of its input, none twice, in the
\* order they have in the input; clean_column_names and strip_text_columns
\* return every row.
RowOrderPreserved ==
  LastStage \in {"names", "strip", "sanitize", "filter"} =>
    /\ \A k \in 1..Len(Out.rows) : Out.rows[k].idx \in IdxSet(In)
    /\ \A k, l \in 1..Len(Out.rows) :
         k < l => RowAt(In, Out.rows[k].idx) < RowAt(In, Out.rows[l].idx)
    /\ LastStage \in {"names", "strip"} => IdxSeq(Out) = IdxSeq(In)

\* A filtering stage dropped a row and returned two.
TwoSurvivorsOneDropped ==
  /\ LastStage \in {"sanitize", "filter"}
  /\ Len(Out.rows) = 2
  /\ Len(In.rows) > 2

\* The columns strip_text_columns selects: those carrying a given label, or
\* with no labels given those of dtype object.
SelectedAt(t) ==
  IF text_columns.given
  THEN {i \in 1..Len(t.columns) : t.columns[i] \in Range(text_columns.cols)}
  ELSE {i \in 1..Len(t.columns) : t.dtypes[i] = "object"}

\* b is the text a with whitespace taken from its two ends only.
TrimOf(a, b) ==
  /\ b = <<>> \/ (~IsSpace(b[1]) /\ ~IsSpace(b[Len(b)]))
  /\ \E p \in 1..(Len(a) + 1) : \E q \in 0..Len(a) :
       /\ b = SubSeq(a, p, q)
       /\ \A k \in 1..Len(a) : (k < p \/ k > q) => IsSpace(a[k])

AppleLabel == <<"A","p","p","l","e">>

BananaLabel == <<"B","a","n","a","n","a">>

PearLabel == <<"p","e","a","r">>

\* C6: strip_text_columns keeps the labels, the rows and every unselected
\* column; every cell of a selected column becomes text without leading or
\* trailing whitespace: a text its trimmed self, a number a text that reads
\* back as that number, NaN the text nan; " Apple ", "Banana", " pear"
\* become "Apple", "Banana", "pear".
TrimmerTrimsSelectedColumns ==
  LastStage = "strip" =>
    /\ Out.columns = In.columns
    /\ IdxSeq(Out) = IdxSeq(In)
    /\ \A i \in 1..Len(In.columns) :
         IF i \in SelectedAt(In)
         THEN /\ Out.dtypes[i] = "object"
              /\ \A r \in 1..Len(In.rows) :
                   LET a == In.rows[r].cells[i]
                       b == Out.rows[r].cells[i]
                   IN /\ IsStr(b)
                      /\ IsStr(a) => TrimOf(a.s, b.s)
                      /\ IsNum(a) => TrimOf(b.s, b.s) /\ ParseNumber(b.s) = a
                      /\ IsNaN(a) => b.s = <<"n", "a", "n">>
         ELSE /\ Out.dtypes[i] = In.dtypes[i]
              /\ ColumnCells(Out, i) = ColumnCells(In, i)
    /\ In = TrimExample =>
         ColumnCells(Out, 1) = <<Str(AppleLabel), Str(BananaLabel), Str(PearLabel)>>

\* A given numeric column was turned to text while an object column that
\* was not given kept its padded text.
TrimmerWidenedNumericColumn ==
  /\ LastStage = "strip"
  /\ text_columns.given
  /\ \E i \in SelectedAt(In) : \E r \in 1..Len(In.rows) :
       IsNum(In.rows[r].cells[i]) /\ In.dtypes[i] = "float64"
  /\ \E i \in 1..Len(In.columns) : \E r \in 1..Len(In.rows) :
       /\ i \notin SelectedAt(In)
       /\ Out.rows[r].cells[i] = Str(<<" ", "3", " ">>)

\* C7: a call changes no table that exists when it is made, and what it
\* returns is an object that did not exist before.
NoInPlaceMutation ==
  [][/\ \A o \in 1..Len(heap) : heap'[o] = heap[o]
     /\ df' # df => df' \notin 1..Len(heap)]_vars

\* A stage returned a table that differs from its argument.
StageReturnedChangedCopy ==
  /\ LastStage \in {"names", "strip", "sanitize"}
  /\ df # arg
  /\ Out # In

\* The script's full run: the five stages, then the write.
FullRun == Stages \o <<"write">>

IsPrefix(a, b) == Len(a) <= Len(b) /\ a = SubSeq(b, 1, Len(a))

\* C8: the script runs the stages once each in the order load, names,
\* strip, sanitize, filter; the cleaned file changes only in the step after
\* all five have returned; a step in which a stage raises changes no file
\* and ends the run, the cleaned file never having been written.
ScriptRunsStagesInOrderThenWrites ==
  [][caller = "script" =>
       /\ IsPrefix(done', FullRun)
       /\ done' # done => done' = Append(done, pc)
       /\ fs'.cleaned # fs.cleaned => done = Stages
       /\ pc # "failed"
       /\ pc' = "failed" => fs' = fs /\ "write" \notin Range(done')]_vars

\* The script failed after two stages or more, the file of the earlier run
\* still in place.
ScriptFailedAfterStages ==
  /\ caller = "script"
  /\ pc = "failed"
  /\ Len(done) >= 2
  /\ fs.cleaned = Stale

HasDuplicates(labels) ==
  \E i, j \in 1..Len(labels) : i # j /\ labels[i] = labels[j]

\* C9: when clean_column_names has mapped distinct labels to one
\* label, every later stage completes.
CollisionStagesComplete ==
  (/\ "names" \in Range(done)
   /\ HasDuplicates(heap[2].columns)
   /\ ~HasDuplicates(heap[1].columns)) => pc # "failed"

\* The cell is a number, or text that reads as one.
Parsable(c) == IsNum(c) \/ (IsStr(c) /\ IsNum(ParseNumber(c.s)))

\* The table with the label at position i replaced.
Relabel(t, i, label) == [t EXCEPT !.columns[i] = label]

\* C10: handle_missing_values returns exactly the rows whose cells in the
\* price and quantity columns are numbers or text that reads as a number,
\* those cells as numbers; the other columns keep their cells and dtypes;
\* with no price or quantity column the table is returned as it was; a
\* column both rules match is treated as it would be under a label that
\* only the price rule matches; and handle_missing_values leaves its own
\* result as it is.
SanitizerDropsExactlyUnparsableRows ==
  LastStage = "sanitize" =>
    /\ IdxSet(Out) =
         {In.rows[r].idx : r \in {q \in 1..Len(In.rows) :
            \A i \in ClassifiedAt(In) : Parsable(In.rows[q].cells[i])}}
    /\ Out.columns = In.columns
    /\ \A k \in 1..Len(Out.rows) : \A i \in 1..Len(In.columns) :
         LET a == In.rows[RowAt(In, Out.rows[k].idx)].cells[i]
             b == Out.rows[k].cells[i]
         IN IF i \in ClassifiedAt(In)
            THEN IsNum(b) /\ (IsNum(a) => b = a) /\ (IsStr(a) => b = ParseNumber(a.s))
            ELSE b = a
    /\ \A i \in 1..Len(In.columns) :
         i \notin ClassifiedAt(In) => Out.dtypes[i] = In.dtypes[i]
    /\ ClassifiedAt(In) = {} => Out = In
    /\ \A i \in 1..Len(In.columns) :
         (/\ IsPriceLabel(In.columns[i]) /\ IsQtyLabel(In.columns[i])
          /\ PriceWord \notin Range(In.columns))
           => LET once == handle_missing_values(Relabel(In, i, PriceWord))
              IN once.exc = "" /\ Relabel(once.t, i, In.columns[i]) = Out
    /\ handle_missing_values(Out).exc = ""
    /\ handle_missing_values(Out).t = Out

\* A column both rules match was sanitized: a row was dropped, a row kept.
SanitizerRanOnBothRulesColumn ==
  /\ LastStage = "sanitize"
  /\ \E i \in 1..Len(In.columns) :
       IsPriceLabel(In.columns[i]) /\ IsQtyLabel(In.columns[i])
  /\ Len(Out.rows) = 1
  /\ Len(In.rows) = 2

====
